---------------------------- MODULE Spec2Model ----------------------------
(***************************************************************************)
(* A model of anki-language-gpt: the command line entry point (main), the  *)
(* orchestrator (runner) with its admission gate (asyncio.Semaphore) and   *)
(* per-word pipelines (sem_task / search), the remote client's parsing of  *)
(* example sentences (OpenAIGenerator.generate_sample_sentences) and the   *)
(* per-target rendering (format_example_sentences, FlashCard).             *)
(*                                                                         *)
(* Text is modelled as a sequence of one-character strings, so that        *)
(* str.strip, str.split and str.replace are computed character by          *)
(* character as Python computes them.                                      *)
(***************************************************************************)
EXTENDS Integers, Sequences, FiniteSets, TLC

VARIABLES
    \* ---- main / runner --------------------------------------------------
    mainpc,            \* position of main and runner
    output_groups,     \* main: list of OutputGroup (output_file suffix, format)
    overwrite_output,  \* --overwrite-output
    language,          \* --language: "none" (auto-detect) or a language name
    use_romanization,  \* --use-romanization: "None", "True" or "False"
    max_concurrent_cards,
    number_of_sentences,
    lines,             \* input_file.readlines()
    line_idx,          \* position of the `for word in lines` loop
    unique_words,      \* runner: unique_words
    words_to_search,   \* runner: words_to_search
    detect_calls,      \* remote calls made by auto_detect_language/_romanization
    \* ---- pipelines ------------------------------------------------------
    tasks,             \* runner: tasks (the words handed to gather, in order)
    pc,                \* position of each sem_task
    sem_value,         \* asyncio.Semaphore._value
    waiters,           \* asyncio.Semaphore._waiters (FIFO)
    sent,              \* sent[i][q]: session.post calls of task i for query q
    partial,           \* values search has bound so far, per task
    task_result,       \* SearchResult returned by each finished task
    finished,          \* task indices in completion order
    failed_query,      \* per task: the query whose reply was an error
    results,           \* what `await asyncio.gather(*tasks)` returned
    \* ---- token usage ----------------------------------------------------
    usage,             \* how the remote model prices its replies
    tokens,            \* OpenAIGenerator.tokens
    detect_usage,      \* usage.total_tokens of the auto-detection completions
    admitted,          \* tasks that were given a slot of the semaphore
    \* ---- output ---------------------------------------------------------
    group_idx,         \* position of the `for output_group` loop
    files,             \* per output group: was it cleared, rows written
    \* ---- pure-function harnesses ----------------------------------------
    fn_in,             \* input of the function applied
    fn_out             \* its output (stage "init" before it ran)

vars == << mainpc, output_groups, overwrite_output, language, use_romanization,
           max_concurrent_cards, number_of_sentences, lines, line_idx,
           unique_words, words_to_search, detect_calls, tasks, pc, sem_value,
           waiters, sent, partial, task_result, finished, failed_query, results,
           usage, tokens, detect_usage, admitted, group_idx, files, fn_in,
           fn_out >>

mainVars == << mainpc, output_groups, overwrite_output, language,
               use_romanization, max_concurrent_cards, number_of_sentences,
               detect_calls >>
readVars == << lines, line_idx, unique_words, words_to_search >>
taskVars == << tasks, pc, sem_value, waiters, sent, partial, task_result,
               finished, failed_query, results >>
tokenVars == << usage, tokens, detect_usage, admitted >>
outVars  == << group_idx, files >>
fnVars   == << fn_in, fn_out >>

---------------------------------------------------------------------------
\* Bounds of the model
MaxK      == 2   \* largest concurrency ceiling tried
MaxLines  == 3   \* longest input file read under SpecRead
MaxChoices == 3  \* most raw completions in one reply under SpecSentences
MaxN      == 2   \* largest number_of_sentences tried
MaxSentences == 2 \* most example sentences of a result under SpecRender

---------------------------------------------------------------------------
\* Characters
NL == "\n"
SP == " "
TAB == "\t"
DQ == "\""
SQ == "'"

\* Python's str.strip() with no argument strips whitespace
Whitespace == {SP, NL, TAB}

\* anki_language_gpt.py:135  word.strip('\n \t\'"')
WordStripChars == {NL, SP, TAB, SQ, DQ}

\* openai_generator.py:178  content.strip(' \n')
ContentStripChars == {SP, NL}

RECURSIVE LStrip(_, _)
LStrip(s, chars) ==
    IF s = <<>> THEN <<>>
    ELSE IF Head(s) \in chars THEN LStrip(Tail(s), chars)
    ELSE s

RECURSIVE RStrip(_, _)
RStrip(s, chars) ==
    IF s = <<>> THEN <<>>
    ELSE IF s[Len(s)] \in chars THEN RStrip(SubSeq(s, 1, Len(s) - 1), chars)
    ELSE s

\* str.strip(chars)
Strip(s, chars) == RStrip(LStrip(s, chars), chars)

\* str.split(sep) for a one-character separator: always at least one piece
RECURSIVE SplitAcc(_, _, _)
SplitAcc(s, sep, cur) ==
    IF s = <<>> THEN << cur >>
    ELSE IF Head(s) = sep THEN << cur >> \o SplitAcc(Tail(s), sep, <<>>)
    ELSE SplitAcc(Tail(s), sep, Append(cur, Head(s)))

Split(s, sep) == SplitAcc(s, sep, <<>>)

\* s.startswith(p)
StartsWith(s, p) == Len(p) <= Len(s) /\ SubSeq(s, 1, Len(p)) = p

\* str.replace(old, new): non-overlapping occurrences, left to right; an
\* empty `old` matches before every character and at the end
RECURSIVE ReplaceNonEmpty(_, _, _)
ReplaceNonEmpty(s, old, new) ==
    IF s = <<>> THEN <<>>
    ELSE IF StartsWith(s, old)
         THEN new \o ReplaceNonEmpty(SubSeq(s, Len(old) + 1, Len(s)), old, new)
         ELSE << Head(s) >> \o ReplaceNonEmpty(Tail(s), old, new)

RECURSIVE ReplaceEmpty(_, _)
ReplaceEmpty(s, new) ==
    IF s = <<>> THEN new
    ELSE new \o << Head(s) >> \o ReplaceEmpty(Tail(s), new)

Replace(s, old, new) ==
    IF old = <<>> THEN ReplaceEmpty(s, new) ELSE ReplaceNonEmpty(s, old, new)

\* sep.join(list)
RECURSIVE Join(_, _)
Join(list, sep) ==
    IF list = <<>> THEN <<>>
    ELSE IF Len(list) = 1 THEN list[1]
    ELSE list[1] \o sep \o Join(Tail(list), sep)

\* list[:n] for n >= 0
Prefix(list, n) == SubSeq(list, 1, IF n < Len(list) THEN n ELSE Len(list))

Range(s) == { s[i] : i \in 1..Len(s) }

\* sequences over S of length 0..n
SeqsUpTo(S, n) == UNION { [1..k -> S] : k \in 0..n }

---------------------------------------------------------------------------
\* translation_utils.py: OutputFormat, ExampleSentence, SearchResult

SHEETS == "sheets"
ANKI   == "anki"
EXCEL  == "excel"
OutputFormat == {SHEETS, ANKI, EXCEL}

ExampleSentence(foreign_lang, english) ==
    [foreign_lang |-> foreign_lang, english |-> english]

SearchResult(word, romanization, english_def, example_sentences, explanation) ==
    [foreign_lang_word |-> word, romanization |-> romanization,
     english_def |-> english_def, example_sentences |-> example_sentences,
     explanation |-> explanation]

---------------------------------------------------------------------------
\* openai_generator.py: generate_sample_sentences, after the reply arrived

\* line 188: [s.strip() for s in foreign_english if s.strip()]
RECURSIVE NonBlankStripped(_)
NonBlankStripped(pieces) ==
    IF pieces = <<>> THEN <<>>
    ELSE LET s == Strip(Head(pieces), Whitespace)
         IN  (IF s # <<>> THEN << s >> ELSE <<>>) \o NonBlankStripped(Tail(pieces))

\* a split that keeps the blank segments, unstripped
ForeignEnglishKeepBlank(sentence) == Split(sentence, NL)

\* lines 186-188
ForeignEnglish(sentence) == NonBlankStripped(Split(sentence, NL))

\* lines 183-199: the loop over the raw completions, with its accumulators
RECURSIVE SentenceLoop(_, _, _)
SentenceLoop(sentences, example_sentences, prev_sentences) ==
    IF sentences = <<>> THEN example_sentences
    ELSE LET foreign_english == ForeignEnglish(Head(sentences))
         IN  IF Len(foreign_english) # 2
             THEN SentenceLoop(Tail(sentences), example_sentences, prev_sentences)
             ELSE IF foreign_english[1] \in prev_sentences
             THEN SentenceLoop(Tail(sentences), example_sentences, prev_sentences)
             ELSE SentenceLoop(Tail(sentences),
                      Append(example_sentences,
                             ExampleSentence(foreign_english[1], foreign_english[2])),
                      prev_sentences \cup { foreign_english[1] })

\* no truncation
TruncateOff(example_sentences, nsentences) == example_sentences

\* line 201: example_sentences[:nsentences]
Truncate(example_sentences, nsentences) == Prefix(example_sentences, nsentences)

\* lines 177-208: `choices` are the contents of data['choices'], in order
ParseSampleSentences(choices, nsentences) ==
    LET sentences == [ i \in 1..Len(choices) |-> Strip(choices[i], ContentStripChars) ]
    IN  Truncate(SentenceLoop(sentences, <<>>, {}), nsentences)

---------------------------------------------------------------------------
\* translation_utils.py: format_example_sentences

Stars == << "*", "*" >>
BoldOpen == << "<", "b", ">" >>
BoldClose == << "<", "/", "b", ">" >>

\* an emphasis that marks up only the first occurrence of the word
EmphasizeFirst(foreign_lang, foreign_lang_word, output_format) ==
    LET starts == { p \in 1..Len(foreign_lang) :
                      StartsWith(SubSeq(foreign_lang, p, Len(foreign_lang)), foreign_lang_word) }
        first == CHOOSE p \in starts : \A r \in starts : p <= r
    IN  IF starts = {} THEN foreign_lang
        ELSE SubSeq(foreign_lang, 1, first - 1)
                \o Stars \o foreign_lang_word \o Stars
                \o SubSeq(foreign_lang, first + Len(foreign_lang_word), Len(foreign_lang))

\* lines 56-64: the emphasis markup of one sentence's foreign half
Emphasize(foreign_lang, foreign_lang_word, output_format) ==
    IF output_format \in {EXCEL, SHEETS}
    THEN Replace(foreign_lang, foreign_lang_word, Stars \o foreign_lang_word \o Stars)
    ELSE Replace(foreign_lang, foreign_lang_word,
                 BoldOpen \o Stars \o foreign_lang_word \o Stars \o BoldClose)

\* lines 68-70: the Excel quoting of one sentence's foreign half
ExcelQuote(foreign_lang_example, output_format) ==
    IF output_format = EXCEL
    THEN << DQ >> \o Replace(foreign_lang_example, << DQ >>, << DQ, DQ >>) \o << DQ >>
    ELSE foreign_lang_example

\* lines 54-73: one iteration of the loop
FormatSentence(sentence, foreign_lang_word, output_format) ==
    [sentence EXCEPT !.foreign_lang =
        ExcelQuote(Emphasize(sentence.foreign_lang, foreign_lang_word, output_format),
                   output_format)]

\* lines 47-76
format_example_sentences(search_result, output_format) ==
    [search_result EXCEPT !.example_sentences =
        [ i \in 1..Len(search_result.example_sentences) |->
            FormatSentence(search_result.example_sentences[i],
                           search_result.foreign_lang_word, output_format) ]]

---------------------------------------------------------------------------
\* translation_utils.py: FlashCard

FlashCard(foreign_lang_word, search_result, use_rom, output_format) ==
    [foreign_lang_word |-> foreign_lang_word, search_result |-> search_result,
     use_romanization |-> use_rom, output_format |-> output_format]

\* lines 105-107 and 150-152: f'{s.foreign_lang}{new_line}{s.english}'
SentencePairs(card, new_line) ==
    [ i \in 1..Len(card.search_result.example_sentences) |->
        card.search_result.example_sentences[i].foreign_lang \o new_line
            \o card.search_result.example_sentences[i].english ]

\* lines 109-127 and 154-172: the columns, with or without romanization
Columns(card, new_line) ==
    LET cell == Join(SentencePairs(card, new_line), new_line \o new_line)
    IN  IF card.use_romanization = "True"
        THEN << card.foreign_lang_word, card.search_result.romanization,
                card.search_result.english_def, cell, card.search_result.explanation >>
        ELSE << card.foreign_lang_word, card.search_result.english_def, cell,
                card.search_result.explanation >>

\* index of the example-sentence column in a row
SentenceColumn(card) == IF card.use_romanization = "True" THEN 4 ELSE 3

\* an anki line break of the HTML tag alone
CsvNewLineTagOnly(output_format) ==
    IF output_format = ANKI THEN << "<", "b", "r", ">" >> ELSE << NL >>

\* line 148: '\n<br>' if ANKI else '\n'
CsvNewLine(output_format) ==
    IF output_format = ANKI THEN << NL, "<", "b", "r", ">" >> ELSE << NL >>

\* line 103
ExcelNewLine == << NL >>

\* no word-identity check
WordsMatchAlways(card) == TRUE

\* lines 96 and 139: the word-identity check
WordsMatch(card) == card.foreign_lang_word = card.search_result.foreign_lang_word

\* lines 88-127: the outcome is the raised error or the one-row DataFrame
to_df_row(card) ==
    IF card.output_format # EXCEL
    THEN [raised |-> "RuntimeError: format", rows |-> <<>>]
    ELSE IF ~WordsMatch(card)
    THEN [raised |-> "RuntimeError: mismatch", rows |-> <<>>]
    ELSE [raised |-> "none", rows |-> << Columns(card, ExcelNewLine) >>]

\* lines 129-172: `written` are the rows the csv.writer has been given so far
write_csv_list(card, written) ==
    IF card.output_format \notin {SHEETS, ANKI}
    THEN [raised |-> "RuntimeError: format", rows |-> written]
    ELSE IF ~WordsMatch(card)
    THEN [raised |-> "RuntimeError: mismatch", rows |-> written]
    ELSE [raised |-> "none",
          rows |-> Append(written, Columns(card, CsvNewLine(card.output_format)))]

---------------------------------------------------------------------------
\* Inputs of a run

\* An OutputGroup: the output file is modelled by its suffix
OutputGroup(suffix, output_format) == [output_file |-> suffix, output_format |-> output_format]

\* the --output-file / --output-format pairings tried (main zips the two lists)
OutputGroupChoices ==
    { << OutputGroup(".csv", ANKI) >>,
      << OutputGroup(".csv", SHEETS), OutputGroup(".xlsx", EXCEL) >>,
      << OutputGroup(".csv", EXCEL) >>,
      << OutputGroup(".csv", ANKI), OutputGroup(".xlsx", SHEETS) >>,
      << OutputGroup(".xlsx", EXCEL), OutputGroup(".txt", ANKI) >>,
      << OutputGroup(".csv", ANKI), OutputGroup(".csv", SHEETS), OutputGroup(".xlsx", EXCEL) >> }

\* --language / --use-romanization pairs tried; validate_language has already
\* rejected an unknown language name when main starts
LanguageChoices ==
    { [language |-> "none", use_romanization |-> "None"],
      [language |-> "french", use_romanization |-> "None"],
      [language |-> "chinese", use_romanization |-> "True"] }

\* raw lines of an input file, each as readlines() gives it
LineChoices ==
    { << NL >>, << "a", NL >>, << "b", NL >>, << SP, "a", NL >>, << "a", SP, NL >>,
      << DQ, "a", DQ, NL >>, << SP, TAB, NL >>, << "a", SP, "b", NL >>,
      << SQ, DQ, NL >>, << "c" >> }

\* the input files of a whole run
InputFiles ==
    { <<>>,
      << << "a", NL >>, << NL >>, << SP, "a", NL >>, << "b", NL >> >>,
      << << "a", NL >>, << "b", NL >>, << "c" >> >> }

\* HTTP statuses of a reply
Statuses == {200, 500}

\* the four queries of search, in the order it issues them
Queries == << "romanization", "translation", "sentences", "explanation" >>

QueryIndex(q) == CHOOSE k \in 1..Len(Queries) : Queries[k] = q

\* content of a successful reply to query q about `word`
ReplyContent(q, word) ==
    CASE q = "romanization" -> << SP, "r", NL >>
      [] q = "translation"  -> << "t", SP >>
      [] q = "sentences"    ->
            << word \o << SP, DQ, "z", DQ, NL, "e", NL >>,
               << "o", "n", "e" >>,
               << SP >> \o word \o << SP, DQ, "z", DQ, NL, NL, "f" >>,
               << "y", SP >> \o word \o << NL, "g" >> >>
      [] q = "explanation"  -> << "x", NL >>

---------------------------------------------------------------------------
\* anki_language_gpt.py: main

\* no check of the pairing
GroupAlwaysValid(g) == TRUE

\* lines 370 and 375: the two checks on one output group
GroupValid(g) ==
    /\ ~(g.output_format = EXCEL /\ g.output_file # ".xlsx")
    /\ ~(g.output_format \in {ANKI, SHEETS} /\ g.output_file # ".csv")

\* lines 366-380, every group passes: asyncio.run(runner(...)) starts
ValidateOk ==
    /\ mainpc = "validate"
    /\ \A k \in 1..Len(output_groups) : GroupValid(output_groups[k])
    /\ mainpc' = "read"
    /\ UNCHANGED << output_groups, overwrite_output, language, use_romanization,
                    max_concurrent_cards, number_of_sentences, detect_calls >>
    /\ UNCHANGED << readVars, taskVars, tokenVars, outVars, fnVars >>

\* lines 366-380, some group fails: ValueError out of main
ValidateError ==
    /\ mainpc = "validate"
    /\ \E k \in 1..Len(output_groups) : ~GroupValid(output_groups[k])
    /\ mainpc' = "config_error"
    /\ UNCHANGED << output_groups, overwrite_output, language, use_romanization,
                    max_concurrent_cards, number_of_sentences, detect_calls >>
    /\ UNCHANGED << readVars, taskVars, tokenVars, outVars, fnVars >>

---------------------------------------------------------------------------
\* anki_language_gpt.py: runner, reading the input file

\* a clean-up that strips white space only
CleanWordKeepQuotes(line) == Strip(line, Whitespace)

\* line 135
CleanWord(line) == Strip(line, WordStripChars)

\* lines 133-147: one iteration of `for word in lines`
ReadLine ==
    /\ mainpc = "read"
    /\ line_idx <= Len(lines)
    /\ LET word == CleanWord(lines[line_idx])
       IN  IF word = <<>> \/ word \in unique_words
           THEN UNCHANGED << unique_words, words_to_search >>
           ELSE /\ unique_words' = unique_words \cup { word }
                /\ words_to_search' = Append(words_to_search, word)
    /\ line_idx' = line_idx + 1
    /\ UNCHANGED << lines, mainVars, taskVars, tokenVars, outVars, fnVars >>

\* lines 150-154: the loop is over; auto-detect or keep the given language
ReadDone ==
    /\ mainpc = "read"
    /\ line_idx > Len(lines)
    /\ mainpc' = IF language = "none" THEN "detect_language" ELSE "dispatch"
    /\ UNCHANGED << output_groups, overwrite_output, language, use_romanization,
                    max_concurrent_cards, number_of_sentences, detect_calls >>
    /\ UNCHANGED << readVars, taskVars, tokenVars, outVars, fnVars >>

\* usage.total_tokens of the completion an auto-detection call gets back; the
\* two functions read only choices[0].message.content (openai_generator.py:281, 310)
DetectTotalTokens(step) == IF step = "language" THEN 5 ELSE 3

\* openai_generator.py:263-293, called at anki_language_gpt.py:152: one remote
\* call; a reply that is no language name raises RuntimeError
AutoDetectLanguage ==
    /\ mainpc = "detect_language"
    /\ detect_calls' = detect_calls + 1
    /\ detect_usage' = detect_usage + DetectTotalTokens("language")
    /\ UNCHANGED << usage, tokens, admitted >>
    /\ \E reply \in {"chinese", "i do not know"} :
          IF reply = "chinese"
          THEN language' = reply /\ mainpc' = "detect_romanization"
          ELSE language' = language /\ mainpc' = "language_error"
    /\ UNCHANGED << output_groups, overwrite_output, use_romanization,
                    max_concurrent_cards, number_of_sentences >>
    /\ UNCHANGED << readVars, taskVars, outVars, fnVars >>

\* openai_generator.py:296-320, called at anki_language_gpt.py:153
AutoDetectRomanization ==
    /\ mainpc = "detect_romanization"
    /\ detect_calls' = detect_calls + 1
    /\ detect_usage' = detect_usage + DetectTotalTokens("romanization")
    /\ UNCHANGED << usage, tokens, admitted >>
    /\ \E reply \in {"yes", "no", "maybe"} :
          IF reply \in {"yes", "no"}
          THEN /\ use_romanization' = (IF reply = "yes" THEN "True" ELSE "False")
               /\ mainpc' = "dispatch"
          ELSE /\ use_romanization' = use_romanization
               /\ mainpc' = "language_error"
    /\ UNCHANGED << output_groups, overwrite_output, language,
                    max_concurrent_cards, number_of_sentences >>
    /\ UNCHANGED << readVars, taskVars, outVars, fnVars >>

---------------------------------------------------------------------------
\* anki_language_gpt.py: runner, the gate and the per-word pipelines

TaskIds == 1..Len(tasks)

\* a task that has returned nothing
NoResult == [foreign_lang_word |-> "none"]

NoSent == [ q \in Range(Queries) |-> 0 ]
NoPartial == [ q \in Range(Queries) |-> <<>> ]

\* lines 170-184 up to the await: the semaphore, one sem_task per word, gather
Dispatch ==
    /\ mainpc = "dispatch"
    /\ mainpc' = "gather"
    /\ tasks' = words_to_search
    /\ pc' = [ i \in 1..Len(words_to_search) |-> "new" ]
    /\ sem_value' = max_concurrent_cards
    /\ waiters' = <<>>
    /\ sent' = [ i \in 1..Len(words_to_search) |-> NoSent ]
    /\ partial' = [ i \in 1..Len(words_to_search) |-> NoPartial ]
    /\ task_result' = [ i \in 1..Len(words_to_search) |-> NoResult ]
    /\ finished' = <<>>
    /\ failed_query' = [ i \in 1..Len(words_to_search) |-> "none" ]
    /\ tokens' = <<>>
    /\ admitted' = {}
    /\ UNCHANGED << usage, detect_usage >>
    /\ UNCHANGED << results, output_groups, overwrite_output, language,
                    use_romanization, max_concurrent_cards, number_of_sentences,
                    detect_calls, readVars, outVars, fnVars >>

\* a gate that never locks
LockedNever == FALSE

\* asyncio.Semaphore.locked(), as `async with semaphore` (line 177) asks it
Locked == sem_value = 0 \/ waiters # <<>>

\* asyncio.Semaphore.release(), run when `async with semaphore` (line 177) is
\* left: the slot goes to the first waiter, or back to the counter
ReleasedValue == IF waiters # <<>> THEN sem_value ELSE sem_value + 1
ReleasedWaiters == IF waiters # <<>> THEN Tail(waiters) ELSE waiters
\* a release that wakes no waiter
ReleasedPcNoWake(pcs) == pcs

ReleasedPc(pcs) == IF waiters # <<>> THEN [pcs EXCEPT ![Head(waiters)] = "granted"] ELSE pcs
ReleasedAdmitted == IF waiters # <<>> THEN admitted \cup { Head(waiters) } ELSE admitted

\* a search that posts its four queries together
IssueAll(i, q) == sent' = [sent EXCEPT ![i] = [ x \in Range(Queries) |-> 1 ]]

\* line 65 (and 68, 71, 76): session.post of query q by task i
Issue(i, q) == sent' = [sent EXCEPT ![i][q] = @ + 1]

\* lines 176-178, first step of sem_task(word): tasks start in the order
\* gather was given them; past the gate search issues its first query
TaskStart(i) ==
    /\ mainpc = "gather"
    /\ pc[i] = "new"
    /\ \A j \in 1..(i - 1) : pc[j] # "new"
    /\ IF ~Locked
       THEN /\ sem_value' = sem_value - 1
            /\ pc' = [pc EXCEPT ![i] = Queries[1]]
            /\ Issue(i, Queries[1])
            /\ admitted' = admitted \cup { i }
            /\ UNCHANGED waiters
       ELSE /\ waiters' = Append(waiters, i)
            /\ pc' = [pc EXCEPT ![i] = "acquire"]
            /\ UNCHANGED << sem_value, sent, admitted >>
    /\ UNCHANGED << tasks, partial, task_result, finished, failed_query, results >>
    /\ UNCHANGED << usage, tokens, detect_usage >>
    /\ UNCHANGED << mainVars, readVars, outVars, fnVars >>

\* line 177: a waiter that was handed a slot resumes and search starts
TaskResume(i) ==
    /\ mainpc = "gather"
    /\ pc[i] = "granted"
    /\ pc' = [pc EXCEPT ![i] = Queries[1]]
    /\ Issue(i, Queries[1])
    /\ UNCHANGED << tasks, sem_value, waiters, partial, task_result, finished,
                    failed_query, results >>
    /\ UNCHANGED << mainVars, readVars, tokenVars, outVars, fnVars >>

\* what search binds from a successful reply (openai_generator.py:68, 116, 178-208, 251)
Parsed(q, content) ==
    IF q = "sentences"
    THEN ParseSampleSentences(content, number_of_sentences)
    ELSE Strip(content, ContentStripChars)

\* lines 81-85: the SearchResult of task i once the explanation is bound
BuildResult(i, p) ==
    SearchResult(tasks[i], p["romanization"], p["translation"], p["sentences"],
                 p["explanation"])

\* data['usage']['total_tokens'] of the reply to query q of task i
\* (openai_generator.py:64, 112, 174, 247)
TotalTokens(i, q) == IF usage = "flat" THEN 7 ELSE 10 * i + QueryIndex(q)

\* a client that keeps no record of the usage
RecordedNothing(toks, total_tokens) == toks

\* self.tokens.append(tokens), after the status test has passed
\* (openai_generator.py:65, 113, 175, 248)
Recorded(toks, total_tokens) == Append(toks, total_tokens)

\* the event loop only polls for replies once every ready first step has run
AllStarted == \A j \in TaskIds : pc[j] # "new"

\* a reply with status 200 to the query task i is waiting on: bind it, then
\* issue the next query, or return the result and leave the gate
ReplyOk(i) ==
    /\ mainpc = "gather"
    /\ AllStarted
    /\ pc[i] \in Range(Queries)
    /\ LET q == pc[i]
           k == QueryIndex(q)
           p == [partial[i] EXCEPT ![q] = Parsed(q, ReplyContent(q, tasks[i]))]
       IN  /\ tokens' = Recorded(tokens, TotalTokens(i, q))
           /\ partial' = [partial EXCEPT ![i] = p]
           /\ IF k < Len(Queries)
              THEN /\ pc' = [pc EXCEPT ![i] = Queries[k + 1]]
                   /\ Issue(i, Queries[k + 1])
                   /\ UNCHANGED << sem_value, waiters, task_result, finished, admitted >>
              ELSE /\ task_result' = [task_result EXCEPT ![i] = BuildResult(i, p)]
                   /\ pc' = ReleasedPc([pc EXCEPT ![i] = "done"])
                   /\ sem_value' = ReleasedValue
                   /\ waiters' = ReleasedWaiters
                   /\ admitted' = ReleasedAdmitted
                   /\ finished' = Append(finished, i)
                   /\ UNCHANGED sent
    /\ UNCHANGED << tasks, failed_query, results, usage, detect_usage >>
    /\ UNCHANGED << mainVars, readVars, outVars, fnVars >>

\* a reply with another status (openai_generator.py:61, 110, 172, 245):
\* RuntimeError out of search and out of `async with semaphore`
\* a failed query that sends the pipeline back to its start
RetryPc(pcs, i) == [pcs EXCEPT ![i] = "granted"]

FailedPc(pcs, i) == ReleasedPc([pcs EXCEPT ![i] = "failed"])

ReplyError(i) ==
    /\ mainpc = "gather"
    /\ AllStarted
    /\ pc[i] \in Range(Queries)
    /\ pc' = FailedPc(pc, i)
    /\ sem_value' = ReleasedValue
    /\ waiters' = ReleasedWaiters
    /\ finished' = Append(finished, i)
    /\ failed_query' = [failed_query EXCEPT ![i] = pc[i]]
    /\ admitted' = ReleasedAdmitted
    /\ UNCHANGED << tasks, sent, partial, task_result, results >>
    /\ UNCHANGED << usage, tokens, detect_usage >>
    /\ UNCHANGED << mainVars, readVars, outVars, fnVars >>

\* results in the order the tasks completed
GatherResultsByCompletion == [ k \in 1..Len(finished) |-> task_result[finished[k]] ]

\* line 184: what gather returns when every task has returned
GatherResults == [ i \in TaskIds |-> task_result[i] ]

\* a gather that waits for every task and hands back what succeeded
RECURSIVE Succeeded(_)
Succeeded(i) ==
    IF i > Len(tasks) THEN <<>>
    ELSE (IF pc[i] = "done" THEN << task_result[i] >> ELSE <<>>) \o Succeeded(i + 1)

GatherReturnPartial ==
    /\ mainpc = "gather"
    /\ \A i \in TaskIds : pc[i] \in {"done", "failed"}
    /\ results' = Succeeded(1)
    /\ mainpc' = "write"
    /\ UNCHANGED << tasks, pc, sem_value, waiters, sent, partial, task_result, finished,
                    failed_query >>
    /\ UNCHANGED << output_groups, overwrite_output, language, use_romanization,
                    max_concurrent_cards, number_of_sentences, detect_calls >>
    /\ UNCHANGED << readVars, tokenVars, outVars, fnVars >>

GatherReturn ==
    /\ mainpc = "gather"
    /\ \A i \in TaskIds : pc[i] = "done"
    /\ results' = GatherResults
    /\ mainpc' = "write"
    /\ UNCHANGED << tasks, pc, sem_value, waiters, sent, partial, task_result, finished,
                    failed_query >>
    /\ UNCHANGED << output_groups, overwrite_output, language, use_romanization,
                    max_concurrent_cards, number_of_sentences, detect_calls >>
    /\ UNCHANGED << readVars, tokenVars, outVars, fnVars >>

\* lines 382-392: what asyncio.run does to the tasks still pending when runner
\* has ended with an exception (it cancels every one of them)
\* a shutdown that leaves the pending tasks alone
CancelNone(pcs) == pcs

CancelPending(pcs) ==
    [ i \in DOMAIN pcs |-> IF pcs[i] \in {"done", "failed"} THEN pcs[i] ELSE "cancelled" ]

\* line 184, a task has raised: gather hands the first exception to runner,
\* which leaves `async with session` (line 173) and ends; asyncio.run (line
\* 382) then cancels the pending tasks, each of which leaves the gate
GatherRaise ==
    /\ mainpc = "gather"
    /\ \E i \in TaskIds : pc[i] = "failed"
    /\ mainpc' = "aborted"
    /\ pc' = CancelPending(pc)
    /\ sem_value' = sem_value + Cardinality({ i \in TaskIds :
                          /\ pc[i] \in Range(Queries) \cup {"granted"}
                          /\ CancelPending(pc)[i] = "cancelled" })
    /\ waiters' = SelectSeq(waiters, LAMBDA i : CancelPending(pc)[i] # "cancelled")
    /\ UNCHANGED << tasks, sent, partial, task_result, finished, failed_query, results >>
    /\ UNCHANGED << output_groups, overwrite_output, language, use_romanization,
                    max_concurrent_cards, number_of_sentences, detect_calls >>
    /\ UNCHANGED << readVars, tokenVars, outVars, fnVars >>

---------------------------------------------------------------------------
\* anki_language_gpt.py: runner, writing the outputs

NoFile == [cleared |-> FALSE, written |-> FALSE, rows |-> <<>>]

\* a formatter that writes the markup into the SearchResult it was given
FormattedInPlace(search_result, output_format) ==
    format_example_sentences(search_result, output_format)

\* translation_utils.py:72 and 75: dataclasses.replace builds a new
\* ExampleSentence and a new SearchResult, so the object runner passed at
\* line 200 (an element of `results`) is afterwards what it was before
InputAfterFormat(search_result, output_format) == search_result

\* lines 197-208: the flash cards of one output group
FlashCards(output_format) ==
    [ i \in 1..Len(results) |->
        FlashCard(results[i].foreign_lang_word,
                  format_example_sentences(results[i], output_format),
                  use_romanization, output_format) ]

\* lines 88-99, generate_csv: the cards are written one by one, so a card that
\* raises leaves the rows of the cards before it in the file
RECURSIVE generate_csv(_, _)
generate_csv(flash_cards, written) ==
    IF flash_cards = <<>> THEN [raised |-> "none", rows |-> written]
    ELSE LET r == write_csv_list(Head(flash_cards), written)
         IN  IF r.raised # "none" THEN r ELSE generate_csv(Tail(flash_cards), r.rows)

\* lines 102-111, generate_xlsx: every row is built before the file is written
RECURSIVE generate_xlsx(_)
generate_xlsx(flash_cards) ==
    IF flash_cards = <<>> THEN [raised |-> "none", rows |-> <<>>]
    ELSE LET r == to_df_row(Head(flash_cards))
             rest == generate_xlsx(Tail(flash_cards))
         IN  IF r.raised # "none" THEN r
             ELSE IF rest.raised # "none" THEN rest
             ELSE [raised |-> "none", rows |-> r.rows \o rest.rows]

\* lines 193-195: the file is cleared when --overwrite-output is set
Cleared(file) == IF overwrite_output THEN [file EXCEPT !.cleared = TRUE, !.rows = <<>>] ELSE file

\* lines 187-217: one iteration of `for output_group in output_groups`
WriteGroup ==
    /\ mainpc = "write"
    /\ group_idx <= Len(output_groups)
    /\ LET g == output_groups[group_idx]
           file == Cleared(files[group_idx])
           cards == FlashCards(g.output_format)
           out == IF g.output_format \in {ANKI, SHEETS}
                  THEN generate_csv(cards, file.rows)
                  ELSE generate_xlsx(cards)
       IN  IF cards = <<>>
           THEN \* line 212: flash_cards[0] raises IndexError
                /\ files' = [files EXCEPT ![group_idx] = file]
                /\ mainpc' = "index_error"
                /\ UNCHANGED group_idx
           ELSE IF out.raised # "none"
           THEN /\ files' = [files EXCEPT ![group_idx] =
                                IF g.output_format \in {ANKI, SHEETS}
                                THEN [file EXCEPT !.written = TRUE, !.rows = out.rows]
                                ELSE file]
                /\ mainpc' = "render_error"
                /\ UNCHANGED group_idx
           ELSE /\ files' = [files EXCEPT ![group_idx] =
                                [file EXCEPT !.written = TRUE, !.rows = out.rows]]
                /\ group_idx' = group_idx + 1
                /\ mainpc' = IF group_idx = Len(output_groups) THEN "finished" ELSE "write"
    /\ UNCHANGED << output_groups, overwrite_output, language, use_romanization,
                    max_concurrent_cards, number_of_sentences, detect_calls >>
    /\ results' = [ i \in 1..Len(results) |->
                        InputAfterFormat(results[i], output_groups[group_idx].output_format) ]
    /\ UNCHANGED << tasks, pc, sem_value, waiters, sent, partial, task_result, finished,
                    failed_query >>
    /\ UNCHANGED << readVars, tokenVars, fnVars >>

---------------------------------------------------------------------------
\* The whole program

\* the function harnesses are idle in a whole run
NoInput == [kind |-> "none"]
NoOutput == [stage |-> "init"]

Init ==
    /\ mainpc = "validate"
    /\ output_groups \in OutputGroupChoices
    /\ overwrite_output \in BOOLEAN
    /\ \E c \in LanguageChoices :
          language = c.language /\ use_romanization = c.use_romanization
    /\ max_concurrent_cards \in 1..MaxK
    /\ number_of_sentences = 2
    /\ lines \in InputFiles
    /\ line_idx = 1
    /\ unique_words = {}
    /\ words_to_search = <<>>
    /\ detect_calls = 0
    /\ tasks = <<>>
    /\ pc = <<>>
    /\ sem_value = 0
    /\ waiters = <<>>
    /\ sent = <<>>
    /\ partial = <<>>
    /\ task_result = <<>>
    /\ finished = <<>>
    /\ failed_query = <<>>
    /\ results = <<>>
    /\ usage = "flat"
    /\ tokens = <<>>
    /\ detect_usage = 0
    /\ admitted = {}
    /\ group_idx = 1
    /\ files = [ k \in 1..Len(output_groups) |-> NoFile ]
    /\ fn_in = NoInput
    /\ fn_out = NoOutput

Next ==
    \/ ValidateOk
    \/ ValidateError
    \/ ReadLine
    \/ ReadDone
    \/ AutoDetectLanguage
    \/ AutoDetectRomanization
    \/ Dispatch
    \/ \E i \in TaskIds : TaskStart(i)
    \/ \E i \in TaskIds : TaskResume(i)
    \/ \E i \in TaskIds : ReplyOk(i)
    \/ \E i \in TaskIds : ReplyError(i)
    \/ GatherReturn
    \/ GatherRaise
    \/ WriteGroup

Spec == Init /\ [][Next]_vars

---------------------------------------------------------------------------
\* Properties of a whole run

\* pipelines inside the gate: holding a slot, with a request outstanding or
\* about to issue the first one
InFlight == { i \in TaskIds : pc[i] \in Range(Queries) }
InGate == { i \in TaskIds : pc[i] \in Range(Queries) \cup {"granted"} }

RECURSIVE SumSent(_, _)
SumSent(i, k) == IF k > Len(Queries) THEN 0 ELSE sent[i][Queries[k]] + SumSent(i, k + 1)

\* requests task i has issued
Requests(i) == SumSent(i, 1)

RECURSIVE SumRequests(_)
SumRequests(i) == IF i > Len(tasks) THEN 0 ELSE Requests(i) + SumRequests(i + 1)

\* every remote call of the run: auto-detection and per-word queries
RemoteCalls == detect_calls + SumRequests(1)

\* C1: at most max_concurrent_cards pipelines are inside the gate (issuing
\* remote requests) in every reachable state; a word waits only while the gate
\* is full, and a waiting or not yet started word has issued no request.
C1_AtMostCeiling ==
    /\ Cardinality(InGate) <= max_concurrent_cards
    /\ mainpc = "gather" => sem_value = max_concurrent_cards - Cardinality(InGate)
    /\ mainpc = "gather" /\ waiters # <<>> => Cardinality(InGate) = max_concurrent_cards
    /\ \A i \in TaskIds : pc[i] \in {"new", "acquire", "granted"} => Requests(i) = 0
    /\ \A i \in TaskIds : pc[i] = "acquire" <=> (mainpc = "gather" /\ i \in Range(waiters))

\* C1 witness: the gate is full of pipelines with a request outstanding while
\* another word waits
C1_Witness ==
    /\ mainpc = "gather"
    /\ Cardinality(InFlight) = max_concurrent_cards
    /\ waiters # <<>>

\* gather has returned to runner
Gathered == mainpc \in {"write", "finished", "index_error", "render_error"}

\* C2: when every pipeline succeeded, the results gather returns align
\* positionally with the input words, whatever the completion order.
C2_ResultsAligned ==
    Gathered =>
        /\ Len(results) = Len(words_to_search)
        /\ \A i \in 1..Len(results) : results[i].foreign_lang_word = words_to_search[i]

\* C2 witness: results were returned although the first word completed last
C2_Witness ==
    /\ Gathered
    /\ Len(results) >= 2
    /\ finished[Len(finished)] = 1

\* C3: once any pipeline has failed no output file is cleared or written;
\* a file is touched only when every pipeline has completed successfully.
C3_NoPartialOutput ==
    /\ (\E i \in TaskIds : pc[i] = "failed") =>
            \A k \in 1..Len(files) : files[k] = NoFile
    /\ (\E k \in 1..Len(files) : files[k] # NoFile) =>
            \A i \in TaskIds : pc[i] = "done"

\* C3 witness: the batch was aborted after a word had completed, with
\* --overwrite-output set
C3_Witness ==
    /\ mainpc = "aborted"
    /\ overwrite_output
    /\ \E i \in TaskIds : pc[i] = "done"
    /\ \E i \in TaskIds : pc[i] = "failed"

\* C4: a non-success reply is fatal to the word's result: the pipeline has
\* no SearchResult, the failed query was sent once, the queries after it were
\* never sent, and no query is ever sent twice.
C4_FailureIsFatal ==
    \A i \in TaskIds :
        /\ \A q \in Range(Queries) : sent[i][q] <= 1
        /\ pc[i] = "failed" =>
            /\ task_result[i] = NoResult
            /\ results = <<>>
            /\ sent[i][failed_query[i]] = 1
            /\ \A k \in 1..Len(Queries) :
                  k > QueryIndex(failed_query[i]) => sent[i][Queries[k]] = 0

\* C4 witness: a pipeline failed at its third query and the run has ended
C4_Witness ==
    /\ mainpc = "aborted"
    /\ \E i \in TaskIds : pc[i] = "failed" /\ failed_query[i] = "sentences"

\* C5 as stated: a sibling of a failed pipeline that is in flight (it has
\* issued a request) is never cancelled.
C5_SiblingsNeverCancelled ==
    \A i \in TaskIds : ~(pc[i] = "cancelled" /\ Requests(i) >= 1)

\* C5 amended: a failed pipeline makes the orchestrator's wait fail (gather
\* never returns results); the failure itself cancels no sibling, but when the
\* failed wait ends runner, every pipeline still pending is cancelled.
C5_CancelledAtShutdown ==
    /\ (\E i \in TaskIds : pc[i] = "failed") => mainpc \in {"gather", "aborted"}
    /\ (\E i \in TaskIds : pc[i] = "cancelled") => mainpc = "aborted"
    /\ mainpc = "aborted" =>
          /\ \E i \in TaskIds : pc[i] = "failed"
          /\ \A i \in TaskIds : pc[i] \in {"done", "failed", "cancelled"}

\* C5 witness: after the first word failed a sibling still completed, and a
\* third one, in flight, was cancelled when the run ended
C5_Witness ==
    /\ mainpc = "aborted"
    /\ Len(finished) >= 2
    /\ pc[finished[1]] = "failed"
    /\ pc[finished[2]] = "done"
    /\ \E i \in TaskIds : pc[i] = "cancelled" /\ Requests(i) >= 1

\* the pairings C8 calls invalid
InvalidPairing(g) ==
    \/ g.output_format = EXCEL /\ g.output_file # ".xlsx"
    \/ g.output_format \in {ANKI, SHEETS} /\ g.output_file # ".csv"

\* C8: with an invalid target/extension pairing among the output groups the
\* run makes no remote call: no auto-detection request and no word pipeline.
C8_ConfigErrorBeforeRemote ==
    (\E k \in 1..Len(output_groups) : InvalidPairing(output_groups[k])) =>
        /\ mainpc \in {"validate", "config_error"}
        /\ RemoteCalls = 0
        /\ tasks = <<>>

\* C8 witness: the configuration error was raised in a run that would have
\* auto-detected the language of a non-empty input
C8_Witness ==
    /\ mainpc = "config_error"
    /\ language = "none"
    /\ lines # <<>>
    /\ \E k \in 1..Len(output_groups) :
          output_groups[k].output_format = EXCEL /\ output_groups[k].output_file = ".csv"

---------------------------------------------------------------------------
\* Reading every small input file: runner from the read loop to the dispatch

\* the variables a harness leaves idle
IdleRun ==
    /\ output_groups = << OutputGroup(".csv", ANKI) >>
    /\ overwrite_output = FALSE
    /\ language = "french"
    /\ use_romanization = "None"
    /\ max_concurrent_cards = 1
    /\ number_of_sentences = 2
    /\ line_idx = 1
    /\ unique_words = {}
    /\ words_to_search = <<>>
    /\ detect_calls = 0
    /\ tasks = <<>>
    /\ pc = <<>>
    /\ sem_value = 0
    /\ waiters = <<>>
    /\ sent = <<>>
    /\ partial = <<>>
    /\ task_result = <<>>
    /\ finished = <<>>
    /\ failed_query = <<>>
    /\ results = <<>>
    /\ usage = "flat"
    /\ tokens = <<>>
    /\ detect_usage = 0
    /\ admitted = {}
    /\ group_idx = 1
    /\ files = << NoFile >>

InitRead ==
    /\ mainpc = "read"
    /\ lines \in SeqsUpTo(LineChoices, MaxLines)
    /\ IdleRun
    /\ fn_in = NoInput
    /\ fn_out = NoOutput

NextRead ==
    \/ ReadLine
    \/ ReadDone
    \/ Dispatch

SpecRead == InitRead /\ [][NextRead]_vars

\* what the input contract strips from both ends of a line: white space and
\* quote characters
TrimChars == {SP, TAB, NL, SQ, DQ}

SetMin(S) == CHOOSE x \in S : \A y \in S : x <= y
SetMax(S) == CHOOSE x \in S : \A y \in S : x >= y

\* the trimmed form of a line: from its first to its last character that is
\* not one of TrimChars
Trimmed(line) ==
    LET kept == { k \in 1..Len(line) : line[k] \notin TrimChars }
    IN  IF kept = {} THEN <<>> ELSE SubSeq(line, SetMin(kept), SetMax(kept))

\* the first line whose trimmed form is w
FirstSeen(w) == SetMin({ k \in 1..Len(lines) : Trimmed(lines[k]) = w })

\* C6: the words dispatched are exactly the distinct trimmed non-blank lines
\* of the input, in first-seen order, none of them twice.
C6_DispatchedWords ==
    mainpc = "gather" =>
        /\ tasks = words_to_search
        /\ Range(tasks) = { Trimmed(lines[k]) : k \in 1..Len(lines) } \ { <<>> }
        /\ \A i, j \in 1..Len(tasks) : i < j => FirstSeen(tasks[i]) < FirstSeen(tasks[j])

\* C6 witness: three non-blank lines, two of them different as written but
\* equal once trimmed, gave two words
C6_Witness ==
    /\ mainpc = "gather"
    /\ Len(lines) = 3
    /\ Len(tasks) = 2
    /\ \A k \in 1..3 : Trimmed(lines[k]) # <<>>
    /\ \E j, k \in 1..3 : lines[j] # lines[k] /\ Trimmed(lines[j]) = Trimmed(lines[k])

---------------------------------------------------------------------------
\* generate_sample_sentences on every small reply

\* raw completions (message contents) a reply may hold
CompletionChoices ==
    { << "a", NL, "e" >>, << SP, "a", SP, NL, NL, "f", NL >>, << "b", NL, "e" >>,
      << "o" >>, << SP, NL, NL >>, << "a", NL, "b", NL, "c" >>,
      << "b", TAB, NL, "g" >>, <<>> }

InitSentences ==
    /\ mainpc = "idle"
    /\ lines = <<>>
    /\ IdleRun
    /\ fn_in \in { [kind |-> "sentences", choices |-> c, nsentences |-> n] :
                      c \in SeqsUpTo(CompletionChoices, MaxChoices), n \in 0..MaxN }
    /\ fn_out = NoOutput

\* openai_generator.py:177-208 on the reply fn_in.choices
ParseReply ==
    /\ fn_in.kind = "sentences"
    /\ fn_out.stage = "init"
    /\ fn_out' = [stage |-> "parsed",
                  example_sentences |-> ParseSampleSentences(fn_in.choices, fn_in.nsentences)]
    /\ UNCHANGED << fn_in, mainVars, readVars, taskVars, tokenVars, outVars >>

NextSentences == ParseReply

SpecSentences == InitSentences /\ [][NextSentences]_vars

\* C7: generate_sample_sentences returns at most n sentences, no two of them
\* with the same foreign-language half.
C7_AtMostNDistinct ==
    fn_out.stage = "parsed" =>
        /\ Len(fn_out.example_sentences) <= fn_in.nsentences
        /\ \A i, j \in 1..Len(fn_out.example_sentences) :
              i # j => fn_out.example_sentences[i].foreign_lang
                        # fn_out.example_sentences[j].foreign_lang

\* C7 witness: three well-formed completions, the first two with the same
\* foreign half once stripped, and n = 1: one duplicate dropped, one cut off
C7_Witness ==
    /\ fn_out.stage = "parsed"
    /\ fn_in.nsentences = 1
    /\ fn_in.choices = << << "a", NL, "e" >>, << SP, "a", SP, NL, NL, "f", NL >>,
                          << "b", NL, "e" >> >>
    /\ Len(fn_out.example_sentences) = 1

---------------------------------------------------------------------------
\* Rendering every small flash card with both writers

WordChoices == { << "a" >>, << "b" >> }

SentenceChoices ==
    { ExampleSentence(<< "a", SP, "z" >>, << "e" >>),
      ExampleSentence(<< DQ, "a", DQ, "a" >>, << "e", DQ >>),
      ExampleSentence(<< "c", "b" >>, << "f" >>) }

\* a row already given to the csv.writer
PriorRow == << << "p" >> >>

InitRender ==
    /\ mainpc = "idle"
    /\ lines = <<>>
    /\ IdleRun
    /\ fn_in \in { [kind |-> "card", word |-> w,
                    search_result |-> SearchResult(rw, << "r" >>, << "t" >>, es, << "x" >>),
                    output_format |-> f, use_romanization |-> u, written |-> pr] :
                      w \in WordChoices, rw \in WordChoices,
                      es \in SeqsUpTo(SentenceChoices, MaxSentences),
                      f \in OutputFormat, u \in {"True", "None"},
                      pr \in { <<>>, << PriorRow >> } }
    /\ fn_out = NoOutput

\* anki_language_gpt.py:200-207: the card runner builds for one result
HarnessCard ==
    FlashCard(fn_in.word,
              format_example_sentences(fn_in.search_result, fn_in.output_format),
              fn_in.use_romanization, fn_in.output_format)

\* translation_utils.py:129-172 on that card
RenderCsv ==
    /\ fn_in.kind = "card"
    /\ fn_out.stage = "init"
    /\ fn_out' = [stage |-> "csv", card |-> HarnessCard,
                  out |-> write_csv_list(HarnessCard, fn_in.written)]
    /\ UNCHANGED << fn_in, mainVars, readVars, taskVars, tokenVars, outVars >>

\* translation_utils.py:88-127 on that card
RenderXlsx ==
    /\ fn_in.kind = "card"
    /\ fn_out.stage = "init"
    /\ fn_out' = [stage |-> "xlsx", card |-> HarnessCard, out |-> to_df_row(HarnessCard)]
    /\ UNCHANGED << fn_in, mainVars, readVars, taskVars, tokenVars, outVars >>

NextRender ==
    \/ RenderCsv
    \/ RenderXlsx

SpecRender == InitRender /\ [][NextRender]_vars

Rendered == fn_out.stage \in {"csv", "xlsx"}

\* the rows the writer had before the card was rendered
RowsBefore == IF fn_out.stage = "csv" THEN fn_in.written ELSE <<>>

\* the writer is the one runner uses for the card's target
WriterOfTarget ==
    \/ fn_out.stage = "csv" /\ fn_in.output_format \in {SHEETS, ANKI}
    \/ fn_out.stage = "xlsx" /\ fn_in.output_format = EXCEL

\* C9: rendering a card whose word differs from its result's word raises and
\* writes no row, with either writer; the writer of the card's own target
\* raises the word-mismatch error.
C9_MismatchRaises ==
    Rendered /\ fn_in.word # fn_in.search_result.foreign_lang_word =>
        /\ fn_out.out.raised # "none"
        /\ fn_out.out.rows = RowsBefore
        /\ WriterOfTarget => fn_out.out.raised = "RuntimeError: mismatch"

\* C9 witness: a mismatched anki card went to the delimited-text writer, which
\* already held a row
C9_Witness ==
    /\ fn_out.stage = "csv"
    /\ fn_in.output_format = ANKI
    /\ fn_in.word # fn_in.search_result.foreign_lang_word
    /\ fn_in.written # <<>>
    /\ fn_out.out.raised = "RuntimeError: mismatch"

\* the foreign half with its emphasis and no quoting, joined to the English
\* half by new_line
PlainPairs(new_line) ==
    [ i \in 1..Len(fn_in.search_result.example_sentences) |->
        Emphasize(fn_in.search_result.example_sentences[i].foreign_lang,
                  fn_in.search_result.foreign_lang_word, fn_in.output_format)
            \o new_line \o fn_in.search_result.example_sentences[i].english ]

\* the example-sentence cell of the row that was written
SentenceCell == fn_out.out.rows[Len(fn_out.out.rows)][SentenceColumn(fn_out.card)]

\* C10 as stated: for excel the whole cell value (foreign line, line break and
\* English line together) has its quotes doubled and is wrapped in one pair of
\* quotes; for sheets and anki there is no doubling and no wrapping.
C10_WholeCellQuoted ==
    Rendered /\ fn_out.out.raised = "none" /\ fn_in.search_result.example_sentences # <<>> =>
        IF fn_in.output_format = EXCEL
        THEN SentenceCell =
                << DQ >> \o Replace(Join(PlainPairs(ExcelNewLine), ExcelNewLine \o ExcelNewLine),
                                    << DQ >>, << DQ, DQ >>) \o << DQ >>
        ELSE SentenceCell =
                Join(PlainPairs(CsvNewLine(fn_in.output_format)),
                     CsvNewLine(fn_in.output_format) \o CsvNewLine(fn_in.output_format))

---------------------------------------------------------------------------
\* Token usage of a run: runner from the read loop to its last line, with
\* replies whose usage differs from call to call

UsageProfiles == { "flat", "varied" }

\* the input files of these runs: two words, with a blank and a repeated line
TokenFiles == { << << "a", NL >>, << NL >>, << SP, "a", NL >>, << "b", NL >> >> }

InitTokens ==
    /\ mainpc = "read"
    /\ output_groups = << OutputGroup(".csv", ANKI) >>
    /\ overwrite_output = FALSE
    /\ \E c \in LanguageChoices :
          language = c.language /\ use_romanization = c.use_romanization
    /\ max_concurrent_cards \in 1..MaxK
    /\ number_of_sentences = 2
    /\ lines \in TokenFiles
    /\ line_idx = 1
    /\ unique_words = {}
    /\ words_to_search = <<>>
    /\ detect_calls = 0
    /\ tasks = <<>>
    /\ pc = <<>>
    /\ sem_value = 0
    /\ waiters = <<>>
    /\ sent = <<>>
    /\ partial = <<>>
    /\ task_result = <<>>
    /\ finished = <<>>
    /\ failed_query = <<>>
    /\ results = <<>>
    /\ usage \in UsageProfiles
    /\ tokens = <<>>
    /\ detect_usage = 0
    /\ admitted = {}
    /\ group_idx = 1
    /\ files = << NoFile >>
    /\ fn_in = NoInput
    /\ fn_out = NoOutput

NextTokens ==
    \/ ReadLine
    \/ ReadDone
    \/ AutoDetectLanguage
    \/ AutoDetectRomanization
    \/ Dispatch
    \/ \E i \in TaskIds : TaskStart(i)
    \/ \E i \in TaskIds : TaskResume(i)
    \/ \E i \in TaskIds : ReplyOk(i)
    \/ \E i \in TaskIds : ReplyError(i)
    \/ GatherReturn
    \/ GatherRaise
    \/ WriteGroup

SpecTokens == InitTokens /\ [][NextTokens]_vars

\* the queries of task i that got a successful reply: search has bound a value
Answered(i) == { q \in Range(Queries) : partial[i][q] # <<>> }

RECURSIVE SumAnswered(_)
SumAnswered(i) ==
    IF i > Len(tasks) THEN 0 ELSE Cardinality(Answered(i)) + SumAnswered(i + 1)

\* the successful calls, each as << task, query >>
SuccessfulCalls == { c \in TaskIds \X Range(Queries) : c[2] \in Answered(c[1]) }

\* where in the counter the usage of call c stands (when every usage differs)
EntryOf(c) == CHOOSE n \in 1..Len(tokens) : tokens[n] = TotalTokens(c[1], c[2])

\* where in the completion order task i stands
FinishedAt(i) == CHOOSE n \in 1..Len(finished) : finished[n] = i

\* C11: the usage counter holds exactly one entry per successful call and none
\* for a failed one; each entry is the usage that call's reply reported; the
\* entries stand in completion order (the calls of one word in query order,
\* the last calls of two words in the order the words completed); after a
\* fully successful batch of W words it holds 4 * W entries.
C11_OneEntryPerSuccess ==
    /\ Len(tokens) = SumAnswered(1)
    /\ \A n \in 1..Len(tokens) :
          \E c \in SuccessfulCalls : tokens[n] = TotalTokens(c[1], c[2])
    /\ usage = "varied" =>
          /\ \A c \in SuccessfulCalls : \E n \in 1..Len(tokens) : tokens[n] = TotalTokens(c[1], c[2])
          /\ \A c, d \in SuccessfulCalls :
                c[1] = d[1] /\ QueryIndex(c[2]) < QueryIndex(d[2]) => EntryOf(c) < EntryOf(d)
          /\ \A i, j \in TaskIds :
                pc[i] = "done" /\ pc[j] = "done" /\ FinishedAt(i) < FinishedAt(j) =>
                    EntryOf(<< i, "explanation" >>) < EntryOf(<< j, "explanation" >>)
          /\ \A i \in TaskIds : pc[i] = "failed" =>
                \A n \in 1..Len(tokens) : tokens[n] # TotalTokens(i, failed_query[i])
    /\ Gathered => Len(tokens) = 4 * Len(words_to_search)

\* C11 witness: the second word completed after four interleaved successes
\* and before the first one, whose third call then failed
C11_Witness ==
    /\ mainpc = "aborted"
    /\ usage = "varied"
    /\ Len(tasks) = 2
    /\ pc[2] = "done"
    /\ pc[1] = "failed" /\ failed_query[1] = "sentences"
    /\ Len(tokens) = 6
    /\ \E n \in 1..5 : tokens[n] > tokens[n + 1]

\* C13: the four remote calls of a word are strictly sequential, in the order
\* romanization, translation, sentences, explanation: a call is issued only
\* once the call before it has returned successfully, so a word never has more
\* than one request outstanding; only the pipelines of different words overlap.
Outstanding(i) ==
    { q \in Range(Queries) :
        /\ sent[i][q] >= 1
        /\ q \notin Answered(i)
        /\ failed_query[i] # q
        /\ pc[i] # "cancelled" }

C13_CallsSequential ==
    \A i \in TaskIds :
        /\ Cardinality(Outstanding(i)) <= 1
        /\ \A k \in 2..Len(Queries) :
              sent[i][Queries[k]] >= 1 => Queries[k - 1] \in Answered(i)
        /\ \A q \in Answered(i) : sent[i][q] = 1

\* C13 witness: one word waits for its explanation while another waits for
\* its romanization
C13_Witness ==
    \E i, j \in TaskIds :
        /\ Outstanding(i) = { "explanation" }
        /\ Outstanding(j) = { "romanization" }

RECURSIVE SumSeq(_)
SumSeq(seq) == IF seq = <<>> THEN 0 ELSE Head(seq) + SumSeq(Tail(seq))

\* anki_language_gpt.py:224: the total the run reports
ReportedTotal == SumSeq(tokens)

RECURSIVE UsageOfQueries(_, _)
UsageOfQueries(i, k) ==
    IF k > Len(Queries) THEN 0
    ELSE (IF Queries[k] \in Answered(i) THEN TotalTokens(i, Queries[k]) ELSE 0)
            + UsageOfQueries(i, k + 1)

\* the usage of every answered per-word call
RECURSIVE PerWordUsage(_)
PerWordUsage(i) ==
    IF i > Len(tasks) THEN 0 ELSE UsageOfQueries(i, 1) + PerWordUsage(i + 1)

\* C14 as stated: when the language was auto-detected, the total reported at
\* the end of the run is the usage of the per-word calls plus the usage of the
\* auto_detect_language and auto_detect_romanization calls.
C14_TotalIncludesDetection ==
    mainpc = "finished" /\ detect_calls > 0 =>
        ReportedTotal = PerWordUsage(1) + detect_usage

---------------------------------------------------------------------------
\* The reference result of generate_sample_sentences

\* text from its first to its last character that is not one of chars
TrimmedBy(text, chars) ==
    LET kept == { k \in 1..Len(text) : text[k] \notin chars }
    IN  IF kept = {} THEN <<>> ELSE SubSeq(text, SetMin(kept), SetMax(kept))

\* where the segments of a completion start: at its first character and
\* after every line break
SegmentStarts(c) == { p \in 1..(Len(c) + 1) : p = 1 \/ c[p - 1] = NL }

\* the segment that starts at p: up to the next line break or the end
SegmentAt(c, p) ==
    SubSeq(c, p, SetMin({ e \in p..(Len(c) + 1) : e = Len(c) + 1 \/ c[e] = NL }) - 1)

\* the starts of the segments that are not blank
NonBlankStarts(c) == { p \in SegmentStarts(c) : TrimmedBy(SegmentAt(c, p), Whitespace) # <<>> }

WellFormed(c) == Cardinality(NonBlankStarts(c)) = 2

ForeignOf(c) == TrimmedBy(SegmentAt(c, SetMin(NonBlankStarts(c))), Whitespace)
EnglishOf(c) == TrimmedBy(SegmentAt(c, SetMax(NonBlankStarts(c))), Whitespace)

\* the completions that survive: well formed, and no well-formed completion
\* before them has the same foreign segment
Survivors(choices) ==
    { k \in 1..Len(choices) :
        /\ WellFormed(choices[k])
        /\ \A j \in 1..(k - 1) :
              WellFormed(choices[j]) => ForeignOf(choices[j]) # ForeignOf(choices[k]) }

\* the m-th survivor
Survivor(choices, m) ==
    CHOOSE k \in Survivors(choices) :
        Cardinality({ j \in Survivors(choices) : j < k }) = m - 1

ReferenceSentences(choices, n) ==
    LET count == IF Cardinality(Survivors(choices)) < n
                 THEN Cardinality(Survivors(choices)) ELSE n
    IN  [ m \in 1..count |->
            ExampleSentence(ForeignOf(choices[Survivor(choices, m)]),
                            EnglishOf(choices[Survivor(choices, m)])) ]

\* C12: generate_sample_sentences returns exactly the reference result: the
\* raw completions in order, each split on line breaks with its blank segments
\* dropped, a completion without exactly two non-blank segments discarded,
\* duplicates of an earlier foreign segment discarded, and the first n of the
\* survivors kept; a blank or one-line completion contributes nothing and
\* fewer than n survivors give a shorter list.
C12_ReferenceResult ==
    fn_out.stage = "parsed" =>
        fn_out.example_sentences = ReferenceSentences(fn_in.choices, fn_in.nsentences)

\* C12 witness: a one-line completion, a white-space-only one and a
\* well-formed one with a blank line inside, for n = 2: one sentence returned
C12_Witness ==
    /\ fn_out.stage = "parsed"
    /\ fn_in.nsentences = 2
    /\ fn_in.choices = << << "o" >>, << SP, NL, NL >>, << SP, "a", SP, NL, NL, "f", NL >> >>
    /\ fn_out.example_sentences = << ExampleSentence(<< "a" >>, << "f" >>) >>

---------------------------------------------------------------------------
\* Formatting one result for several targets

\* the cards of one target, formatted from the results as gather returned them
CardsAlone(output_format) ==
    [ i \in TaskIds |->
        FlashCard(task_result[i].foreign_lang_word,
                  format_example_sentences(task_result[i], output_format),
                  use_romanization, output_format) ]

\* the rows of output group k when it is the only group formatted
RowsAlone(k) ==
    IF output_groups[k].output_format \in {ANKI, SHEETS}
    THEN generate_csv(CardsAlone(output_groups[k].output_format), <<>>).rows
    ELSE generate_xlsx(CardsAlone(output_groups[k].output_format)).rows

---------------------------------------------------------------------------
\* The emphasis of the query word, from the positions where it occurs

\* w occurs in text at position p
OccursAt(text, w, p) ==
    /\ p + Len(w) - 1 <= Len(text)
    /\ SubSeq(text, p, p + Len(w) - 1) = w

\* the occurrences of w in text from position p on, left to right, none
\* overlapping the one before it
RECURSIVE Occurrences(_, _, _)
Occurrences(text, w, p) ==
    IF p > Len(text) THEN {}
    ELSE IF OccursAt(text, w, p) THEN { p } \cup Occurrences(text, w, p + Len(w))
    ELSE Occurrences(text, w, p + 1)

\* text from position p on, with every occurrence of w put between open and
\* close and every other character kept
RECURSIVE Marked(_, _, _, _, _)
Marked(text, w, open, close, p) ==
    IF p > Len(text) THEN <<>>
    ELSE IF p \in Occurrences(text, w, 1)
    THEN open \o w \o close \o Marked(text, w, open, close, p + 1)
    ELSE IF \E o \in Occurrences(text, w, 1) : o < p /\ p < o + Len(w)
    THEN Marked(text, w, open, close, p + 1)
    ELSE << text[p] >> \o Marked(text, w, open, close, p + 1)

\* the foreign half the claim describes for a target; for excel the result is
\* then quoted (each quote doubled, the whole put between quotes)
EmphasisOf(text, w, output_format) ==
    IF output_format = ANKI
    THEN Marked(text, w, << "<", "b", ">", "*", "*" >>, << "*", "*", "<", "/", "b", ">" >>, 1)
    ELSE IF output_format = SHEETS
    THEN Marked(text, w, << "*", "*" >>, << "*", "*" >>, 1)
    ELSE << DQ >>
            \o Marked(Marked(text, w, << "*", "*" >>, << "*", "*" >>, 1), << DQ >>, << DQ >>, <<>>, 1)
            \o << DQ >>

\* C16: format_example_sentences replaces every occurrence of the query word
\* in the foreign half (left to right, without overlap) by <b>**word**</b> for
\* anki and by **word** for excel and sheets, and leaves the English half, the
\* order and the number of the sentences as they were.
C16_EveryOccurrenceMarked ==
    Rendered =>
        LET before == fn_in.search_result.example_sentences
            after == fn_out.card.search_result.example_sentences
        IN  /\ Len(after) = Len(before)
            /\ \A i \in 1..Len(before) :
                  /\ after[i].english = before[i].english
                  /\ after[i].foreign_lang =
                        EmphasisOf(before[i].foreign_lang,
                                   fn_in.search_result.foreign_lang_word, fn_in.output_format)

\* C16 witness: an anki card of two sentences, the first with two occurrences
\* of the word and the second with none
C16_Witness ==
    /\ Rendered
    /\ fn_in.output_format = ANKI
    /\ fn_in.search_result.foreign_lang_word = << "a" >>
    /\ Len(fn_in.search_result.example_sentences) = 2
    /\ fn_in.search_result.example_sentences[1].foreign_lang = << DQ, "a", DQ, "a" >>
    /\ fn_in.search_result.example_sentences[2].foreign_lang = << "c", "b" >>
    /\ fn_out.card.search_result.example_sentences[1].foreign_lang
          = << DQ, "<", "b", ">", "*", "*", "a", "*", "*", "<", "/", "b", ">", DQ,
               "<", "b", ">", "*", "*", "a", "*", "*", "<", "/", "b", ">" >>

---------------------------------------------------------------------------
\* The example-sentence cell, from its line-break token

\* the pairs from position i on: each pair's halves joined by token, a pair
\* and the next one by two tokens
RECURSIVE CellFrom(_, _, _)
CellFrom(sentences, token, i) ==
    IF i > Len(sentences) THEN <<>>
    ELSE sentences[i].foreign_lang \o token \o sentences[i].english
            \o (IF i < Len(sentences) THEN token \o token ELSE <<>>)
            \o CellFrom(sentences, token, i + 1)

\* a card was rendered, without error, by the writer of its target
RenderedForTarget == Rendered /\ fn_out.out.raised = "none" /\ WriterOfTarget

\* C17 as stated: the line-break token is \n for excel and sheets and the
\* HTML line break, in place of \n, for anki.
C17_HtmlBreakReplacesNewline ==
    RenderedForTarget =>
        SentenceCell =
            CellFrom(fn_out.card.search_result.example_sentences,
                     IF fn_in.output_format = ANKI THEN << "<", "b", "r", ">" >> ELSE << NL >>,
                     1)

\* C17 amended: the halves of a sentence are joined by the target's line-break
\* token and consecutive pairs by exactly two of it; the token is \n for excel
\* and sheets and, for anki, \n followed by <br>.
C17_NewlineThenHtmlBreak ==
    RenderedForTarget =>
        SentenceCell =
            CellFrom(fn_out.card.search_result.example_sentences,
                     IF fn_in.output_format = ANKI
                     THEN << NL, "<", "b", "r", ">" >> ELSE << NL >>,
                     1)

\* C17 witness: an anki card of two sentences was written
C17_Witness ==
    /\ RenderedForTarget
    /\ fn_in.output_format = ANKI
    /\ Len(fn_in.search_result.example_sentences) = 2
    /\ fn_in.search_result.example_sentences[1] # fn_in.search_result.example_sentences[2]

---------------------------------------------------------------------------
\* The gate under fair scheduling: runner from the read loop on, with a
\* language given, every remote call returning and every ready step run

\* the input files of these runs: three words, and two words
GateFiles ==
    { << << "a", NL >>, << "b", NL >>, << "c" >> >>,
      << << "a", NL >>, << NL >>, << SP, "a", NL >>, << "b", NL >> >> }

InitGate ==
    /\ mainpc = "read"
    /\ lines \in GateFiles
    /\ output_groups = << OutputGroup(".csv", ANKI) >>
    /\ overwrite_output \in BOOLEAN
    /\ language = "french"
    /\ use_romanization = "None"
    /\ max_concurrent_cards \in 1..MaxK
    /\ number_of_sentences = 2
    /\ line_idx = 1
    /\ unique_words = {}
    /\ words_to_search = <<>>
    /\ detect_calls = 0
    /\ tasks = <<>>
    /\ pc = <<>>
    /\ sem_value = 0
    /\ waiters = <<>>
    /\ sent = <<>>
    /\ partial = <<>>
    /\ task_result = <<>>
    /\ finished = <<>>
    /\ failed_query = <<>>
    /\ results = <<>>
    /\ usage = "flat"
    /\ tokens = <<>>
    /\ detect_usage = 0
    /\ admitted = {}
    /\ group_idx = 1
    /\ files = << NoFile >>
    /\ fn_in = NoInput
    /\ fn_out = NoOutput

NextGate ==
    \/ ReadLine
    \/ ReadDone
    \/ Dispatch
    \/ \E i \in TaskIds : TaskStart(i)
    \/ \E i \in TaskIds : TaskResume(i)
    \/ \E i \in TaskIds : ReplyOk(i)
    \/ \E i \in TaskIds : ReplyError(i)
    \/ GatherReturn
    \/ GatherRaise
    \/ WriteGroup

\* runner runs on when it can; the event loop runs every task that is ready
\* to start or to resume; every request outstanding gets its reply; runner is
\* resumed once gather's future is done
FairGate ==
    /\ WF_vars(ReadLine \/ ReadDone \/ Dispatch \/ WriteGroup)
    /\ WF_vars(\E i \in TaskIds : TaskStart(i) \/ TaskResume(i))
    /\ WF_vars(\E i \in TaskIds : ReplyError(i) \/ ReplyOk(i))
    /\ WF_vars(GatherReturn \/ GatherRaise)

SpecGate == InitGate /\ [][NextGate]_vars /\ FairGate

\* runner's wait on gather has ended
WaitEnded == Gathered \/ mainpc = "aborted"

\* C18 as stated: every dispatched word's pipeline is admitted through the
\* gate, whether the batch succeeds or a pipeline fails: when the wait has
\* ended, every word had been given a slot.
C18_EveryWordAdmitted == WaitEnded => admitted = TaskIds

\* the slots of the gate are all accounted for, and a word waits only while
\* some pipeline holds a slot it will give up
GateSound ==
    /\ mainpc = "gather" =>
          /\ sem_value + Cardinality(InGate) = max_concurrent_cards
          /\ InGate \subseteq admitted
          /\ \A i \in TaskIds : pc[i] \in {"done", "failed"} => i \in admitted \ InGate
          /\ waiters # <<>> => InGate # {}
    /\ WaitEnded =>
          /\ sem_value = max_concurrent_cards
          /\ waiters = <<>>
          /\ InGate = {}
    /\ Gathered => admitted = TaskIds
    /\ mainpc = "aborted" =>
          \A i \in TaskIds : i \in admitted \/ (pc[i] = "cancelled" /\ Requests(i) = 0)

\* C18 amended: with every remote call returning and fair scheduling, for
\* every ceiling K >= 1 the orchestrator's wait eventually ends, and every
\* dispatched word is eventually admitted unless the wait fails first (the
\* words still waiting are then cancelled, never admitted); a slot is given
\* up when a pipeline ends by success, failure or cancellation, so the gate
\* never deadlocks and has all K slots free when the wait has ended.
C18_WaitEndsGateSound ==
    /\ (mainpc = "gather") ~> WaitEnded
    /\ (mainpc = "gather") ~> (admitted = TaskIds \/ mainpc = "aborted")
    /\ []GateSound

\* C18 witness: with one slot and three words, the first word failed and the
\* wait ended with the third word cancelled in the queue, never admitted
C18_Witness ==
    /\ mainpc = "aborted"
    /\ max_concurrent_cards = 1
    /\ Len(tasks) = 3
    /\ pc[1] = "failed"
    /\ 3 \notin admitted
    /\ pc[3] = "cancelled"
    /\ sem_value = 1

===========================================================================
